---- MODULE Spec2Model ----
(***************************************************************************)
(* Model of src/main.py: the "@NTC" GPS-tracker TCP endpoint.              *)
(*                                                                         *)
(* A byte string (Python bytes) is a sequence of integers 0..255.  A text  *)
(* string (Python str) is a sequence of code points.  Python's None, and   *)
(* a local name that was never bound, is the tuple <<-1>>, which is no     *)
(* byte string.                                                            *)
(***************************************************************************)
EXTENDS Integers, Sequences, FiniteSets, TLC

VARIABLES sessions, utcoffset, codec

vars == <<sessions, utcoffset, codec>>

\* ------------------------------------------------------------------------
\* Bounds of the model
\* ------------------------------------------------------------------------

\* Most non-empty telemetry reads one session performs.
MaxReads == 2

\* Longest enumerated payload handed to make_handshake on its own.
MaxPayloadLen == 2

\* Longest buffer handed to xor_sum on its own.
MaxBufLen == 3

\* Connections the listener accepts in one behaviour.
MaxConns == 2

\* Telemetry reads of one session when several sessions run.
MaxMultiReads == 1

\* ------------------------------------------------------------------------
\* Python values
\* ------------------------------------------------------------------------

None == <<-1>>

Min(a, b) == IF a < b THEN a ELSE b

\* bytes[a:b] for 0 <= a <= b: Python clips the slice to the buffer.
Slice(buf, a, b) ==
  IF a >= Min(b, Len(buf)) THEN <<>> ELSE SubSeq(buf, a + 1, Min(b, Len(buf)))

\* needle in haystack, at 1-based position i.
MatchAt(buf, sep, i) ==
  /\ i + Len(sep) - 1 <= Len(buf)
  /\ SubSeq(buf, i, i + Len(sep) - 1) = sep

\* b"S:" in data
Contains(buf, sep) == \E i \in 1..Len(buf) : MatchAt(buf, sep, i)

\* str.split(sep): the parts between the leftmost non-overlapping
\* occurrences of sep, scanned left to right.
RECURSIVE SplitFrom(_, _, _, _)
SplitFrom(str, sep, start, i) ==
  IF i + Len(sep) - 1 > Len(str)
    THEN << SubSeq(str, start, Len(str)) >>
    ELSE IF MatchAt(str, sep, i)
      THEN << SubSeq(str, start, i - 1) >>
             \o SplitFrom(str, sep, i + Len(sep), i + Len(sep))
      ELSE SplitFrom(str, sep, start, i + 1)

Split(str, sep) == SplitFrom(str, sep, 1, 1)

\* bytes.decode('ascii'): each byte below 128 is the code point of one
\* character; any other byte raises UnicodeDecodeError.
IsAscii(buf) == \A i \in 1..Len(buf) : buf[i] < 128

DecodeAscii(buf) == [i \in 1..Len(buf) |-> buf[i] % 128]

\* A checksum that adds where xor_sum xors.
Xor_Sum(a, b) == (a + b) % 256

\* a ^ b on bytes, bit by bit.
RECURSIVE XorBits(_, _, _)
XorBits(a, b, n) ==
  IF n = 0 THEN 0
  ELSE (((a % 2) + (b % 2)) % 2) + 2 * XorBits(a \div 2, b \div 2, n - 1)

Xor(a, b) == XorBits(a, b, 8)

\* int.to_bytes(n, "little") for a value that fits.
RECURSIVE ToBytesLittle(_, _)
ToBytesLittle(v, n) ==
  IF n = 0 THEN <<>> ELSE << (v % 256) >> \o ToBytesLittle(v \div 256, n - 1)

RECURSIVE Pow256(_)
Pow256(n) == IF n = 0 THEN 1 ELSE 256 * Pow256(n - 1)

\* struct.unpack('<I', b)[0]: -1 stands for struct.error, raised when
\* the buffer is not exactly 4 bytes long.
RECURSIVE FromBytesLittle(_)
FromBytesLittle(b) ==
  IF b = <<>> THEN 0 ELSE b[1] + 256 * FromBytesLittle(Tail(b))

UnpackI(b) == IF Len(b) = 4 THEN FromBytesLittle(b) ELSE -1

\* ------------------------------------------------------------------------
\* xor_sum, make_handshake
\* ------------------------------------------------------------------------

\* The loop of xor_sum: temp_sum ^= byte, for each byte in order.  The loop
\* over a buffer is the loop over its first half, then, started from the
\* temp_sum that one leaves, the loop over the rest; temp_sum stays a byte.
RECURSIVE XorLoop(_, _)
XorLoop(temp_sum, buffer) ==
  IF buffer = <<>> THEN temp_sum
  ELSE IF Len(buffer) = 1 THEN Xor(temp_sum, buffer[1])
  ELSE LET half  == Len(buffer) \div 2
           first == XorLoop(temp_sum, SubSeq(buffer, 1, half))
       IN  IF first \in 0..255
             THEN XorLoop(first, SubSeq(buffer, half + 1, Len(buffer)))
             ELSE first

xor_sum(buffer) == XorLoop(0, buffer)

\* b"@NTC"
NTC == <<64, 78, 84, 67>>

\* A header whose size field is written most significant byte first.
HandshakeHeader_BigEndianSize(receiverId, senderId, data) ==
  NTC \o senderId \o receiverId
      \o << (Len(data) \div 256) % 256, Len(data) % 256 >>
      \o << xor_sum(data) >> \o << 0 >>

\* The header before its checksum is stored: magic, senderId, receiverId,
\* the 2-byte little-endian size, the data checksum and a zero byte.
HandshakeHeader(receiverId, senderId, data) ==
  NTC \o senderId \o receiverId \o ToBytesLittle(Len(data), 2)
      \o << xor_sum(data) >> \o << 0 >>

\* make_handshake returns None when anything in its try block raised:
\* OverflowError from to_bytes(2, ...) for data of 65536 bytes or more,
\* IndexError from header[15] = ... when the header has no index 15.
make_handshake(receiverId, senderId, data) ==
  LET header == HandshakeHeader(receiverId, senderId, data)
  IN  IF Len(data) >= Pow256(2) THEN None
      ELSE IF Len(header) < 16 THEN None
      ELSE [header EXCEPT ![16] = xor_sum(SubSeq(header, 1, 15))] \o data

\* ------------------------------------------------------------------------
\* datetime.fromtimestamp, datetime.now
\* ------------------------------------------------------------------------

IsLeap(y) == (y % 4 = 0 /\ y % 100 # 0) \/ y % 400 = 0

DaysInYear(y) == IF IsLeap(y) THEN 366 ELSE 365

DaysInMonth(y, m) ==
  IF m = 2 THEN (IF IsLeap(y) THEN 29 ELSE 28)
  ELSE IF m \in {4, 6, 9, 11} THEN 30 ELSE 31

\* <<year, day of the year (from 0)>> of a day counted from 1 January of y.
RECURSIVE YearOfDay(_, _)
YearOfDay(days, y) ==
  IF days < DaysInYear(y) THEN <<y, days>>
  ELSE YearOfDay(days - DaysInYear(y), y + 1)

\* <<month, day of the month>> of a day of year y counted from the 1st of m.
RECURSIVE MonthOfDay(_, _, _)
MonthOfDay(days, y, m) ==
  IF days < DaysInMonth(y, m) THEN <<m, days + 1>>
  ELSE MonthOfDay(days - DaysInMonth(y, m), y, m + 1)

\* The local calendar date-time of a count of seconds since the epoch, in
\* a zone offset seconds east of UTC.
fromtimestamp(seconds, offset) ==
  LET local == seconds + offset
      yd    == YearOfDay(local \div 86400, 1970)
      md    == MonthOfDay(yd[2], yd[1], 1)
      sod   == local % 86400
  IN  [year |-> yd[1], month |-> md[1], day |-> md[2],
       hour |-> sod \div 3600, minute |-> (sod % 3600) \div 60,
       second |-> sod % 60]

\* ------------------------------------------------------------------------
\* Log events and telemetry records
\* ------------------------------------------------------------------------

\* One logger call: its level, which message it is, and whether the text of
\* the message names the client (peername).
LogEvent(level, msg, client) == [level |-> level, msg |-> msg, client |-> client]

\* latitude / 1000000: the whole degrees and the millionths of the quotient.
Degrees(raw) == <<raw \div 1000000, raw % 1000000>>

pack_data(device_id, timestamp, latitude, longitude, speed) ==
  [device_id |-> device_id, timestamp |-> timestamp,
   latitude |-> Degrees(latitude), longitude |-> Degrees(longitude),
   speed |-> speed]

\* ------------------------------------------------------------------------
\* One session: the coroutine handle(reader, writer) of one connection
\* ------------------------------------------------------------------------

\* b"S:" and b"*<S"
SMarker == <<83, 58>>

Ack == <<42, 60, 83>>

\* Where the coroutine of a session stands: suspended in the read of
\* handle, suspended in the read of parse_device_data, or finished.
AwaitingHandshake == "AwaitingHandshake"

Streaming == "Streaming"

Closed == "Closed"

\* A session when handle has logged the new connection and awaits its
\* first read.  handed is every argument writer.write was called with,
\* written what it accepted (it raises TypeError on None), sink the
\* records logged, reads the number of reader.read calls that completed,
\* read_result how the last of them ended ("data", "eof" for an empty
\* buffer, "raised"), writer_closed whether the session has closed its
\* writer, raised whether handle ended by an exception that left it.
NewSession ==
  [pc |-> AwaitingHandshake, data |-> None, idobj |-> None, iddc |-> None,
   device_id |-> None, handed |-> <<>>, written |-> <<>>, reads |-> 0, read_result |-> "none",
   more_data |-> None,
   now |-> 0, sink |-> <<>>,
   log |-> << LogEvent("info", "new connection", TRUE) >>,
   writer_closed |-> FALSE, raised |-> FALSE]

\* A handle that awaits a handshake again while it streams.
AtHandshakeRead_Again(s) == s.pc \in {AwaitingHandshake, Streaming}

\* The session is suspended in `data = await reader.read(100)` of handle.
AtHandshakeRead(s) == s.pc = AwaitingHandshake

\* A loop that its break does not leave: the read is awaited again after
\* the session has ended.
AtTelemetryRead_NoBreak(s) == s.pc \in {Streaming, Closed}

\* The session is suspended in `more_data = await reader.read(100)`, in
\* the loop of parse_device_data; a break leaves the loop for good.
AtTelemetryRead(s) == s.pc = Streaming

\* `if not b"S:" in data: logger.warning(...)`: the events it logs.
MissingIdLog(data) ==
  IF ~Contains(data, SMarker)
    THEN << LogEvent("warning", "Device id is missing", FALSE) >>
    ELSE <<>>

\* A decode that does not raise on a non-ASCII byte (errors="replace").
DeviceIdRaises_Lenient(data) == Len(Split(DecodeAscii(data), SMarker)) < 2

\* data.decode('ascii').split("S:")[1] raises: UnicodeDecodeError from
\* decode, IndexError when split returns one part only.
DeviceIdRaises(data) ==
  \/ ~IsAscii(data)
  \/ Len(Split(DecodeAscii(data), SMarker)) < 2

DeviceId(data) == Split(DecodeAscii(data), SMarker)[2]

\* The reply with the two ids passed in the order of the inbound frame.
Response_Unswapped(data) ==
  make_handshake(Slice(data, 8, 12), Slice(data, 4, 8), Ack)

\* idobj = data[4:8]; iddc = data[8:12];
\* response = make_handshake(idobj, iddc, data=b"*<S")
Response(data) == make_handshake(Slice(data, 4, 8), Slice(data, 8, 12), Ack)

\* The session after its handshake read returned an empty buffer: the
\* disconnect is logged and handle returns.
HandshakeDisconnected(s) ==
  [s EXCEPT !.pc = Closed, !.reads = @ + 1, !.read_result = "eof",
            !.data = <<>>,
            !.log = Append(@, LogEvent("warning", "disconnected", TRUE))]

\* The session after its handshake read returned a non-empty buffer.
HandshakeReceived(s, data) ==
  LET got == [s EXCEPT !.reads = @ + 1, !.read_result = "data",
                       !.data = data,
                       !.idobj = Slice(data, 4, 8),
                       !.iddc = Slice(data, 8, 12),
                       !.log = @ \o MissingIdLog(data)]
  IN  IF DeviceIdRaises(data)
        THEN [got EXCEPT !.pc = Closed, !.raised = TRUE]
      ELSE IF Response(data) = None
        \* make_handshake logged its failure and returned None, and
        \* writer.write(None) raises TypeError before anything is sent.
        THEN [got EXCEPT !.pc = Closed, !.raised = TRUE,
                         !.device_id = DeviceId(data),
                         !.handed = Append(@, None),
                         !.log = Append(@, LogEvent("error",
                                   "Handshake creation failed", FALSE))]
      ELSE [got EXCEPT !.pc = Streaming,
                       !.device_id = DeviceId(data),
                       !.handed = Append(@, Response(data)),
                       !.written = Append(@, Response(data)),
                       !.log = Append(@, LogEvent("info", "Handshake Good", FALSE))]

\* An unpack that takes whatever bytes the slice holds (int.from_bytes),
\* so that no slice is too short for it.
Unpacked_AnyLength(more_data) ==
  << FromBytesLittle(Slice(more_data, 8, 12)),
     FromBytesLittle(Slice(more_data, 20, 24)),
     FromBytesLittle(Slice(more_data, 24, 28)),
     FromBytesLittle(Slice(more_data, 28, 32)) >>

\* An unpack that takes the speed from the last four bytes of the read
\* (more_data[-4:]) instead of more_data[28:32].
Unpacked_SpeedAtEnd(more_data) ==
  IF Len(more_data) < 32 THEN None
  ELSE << UnpackI(Slice(more_data, 8, 12)),
          UnpackI(Slice(more_data, 20, 24)),
          UnpackI(Slice(more_data, 24, 28)),
          UnpackI(Slice(more_data, Len(more_data) - 4, Len(more_data))) >>

\* The four fields of a telemetry read, or None when struct.unpack raised
\* struct.error on one of the slices.
Unpacked(more_data) ==
  LET unpacked_timestamp == UnpackI(Slice(more_data, 8, 12))
      latitude           == UnpackI(Slice(more_data, 20, 24))
      longitude          == UnpackI(Slice(more_data, 24, 28))
      speed              == UnpackI(Slice(more_data, 28, 32))
  IN  IF -1 \in {unpacked_timestamp, latitude, longitude, speed}
        THEN None
        ELSE <<unpacked_timestamp, latitude, longitude, speed>>

\* The year of the frame taken in UTC (utcfromtimestamp) and compared with
\* the local year of the clock.
SameYear_Utc(now, unpacked_timestamp, offset) ==
  fromtimestamp(now, offset).year = fromtimestamp(unpacked_timestamp, 0).year

\* datetime.datetime.now().year == timestamp.year
SameYear(now, unpacked_timestamp, offset) ==
  fromtimestamp(now, offset).year = fromtimestamp(unpacked_timestamp, offset).year

\* The loop without its `if not more_data` test: the empty buffer goes to
\* struct.unpack like any other.
TelemetryDisconnected_Unchecked(s) ==
  [s EXCEPT !.pc = Closed, !.reads = @ + 1, !.read_result = "eof",
            !.more_data = <<>>,
            !.log = Append(@, LogEvent("error", "sent broken data", TRUE))]

\* The session after a telemetry read returned an empty buffer: the
\* disconnect is logged and the loop is left.
TelemetryDisconnected(s) ==
  [s EXCEPT !.pc = Closed, !.reads = @ + 1, !.read_result = "eof",
            !.more_data = <<>>,
            !.log = Append(@, LogEvent("warning",
                                "disconnected after handshake", TRUE))]

\* A loop that is left when a frame is not of the current year.
TelemetryReceived_StopOnOldFrame(s, more_data, now, offset) ==
  LET got == [s EXCEPT !.reads = @ + 1, !.read_result = "data",
                       !.more_data = more_data, !.now = now]
      f   == Unpacked(more_data)
      rec == pack_data(s.device_id, fromtimestamp(f[1], offset), f[2], f[3], f[4])
  IN  IF f = None
        THEN [got EXCEPT !.pc = Closed,
                         !.log = Append(@, LogEvent("error", "sent broken data", TRUE))]
      ELSE IF SameYear(now, f[1], offset)
        THEN [got EXCEPT !.sink = Append(@, rec),
                         !.log = Append(@, LogEvent("info", "record", FALSE))]
      ELSE [got EXCEPT !.pc = Closed]

\* The session after a telemetry read returned a non-empty buffer, with
\* the clock at now.
TelemetryReceived(s, more_data, now, offset) ==
  LET got == [s EXCEPT !.reads = @ + 1, !.read_result = "data",
                       !.more_data = more_data, !.now = now]
      f   == Unpacked(more_data)
      rec == pack_data(s.device_id, fromtimestamp(f[1], offset), f[2], f[3], f[4])
  IN  IF f = None
        THEN [got EXCEPT !.pc = Closed,
                         !.log = Append(@, LogEvent("error", "sent broken data", TRUE))]
      ELSE IF SameYear(now, f[1], offset)
        THEN [got EXCEPT !.sink = Append(@, rec),
                         !.log = Append(@, LogEvent("info", "record", FALSE))]
      ELSE got

\* reader.read raised (the connection was reset).  In handle only
\* IncompleteReadError is caught, so the exception leaves handle; in
\* parse_device_data `except Exception` logs it and the coroutine returns.
HandshakeReadRaised(s) ==
  [s EXCEPT !.pc = Closed, !.reads = @ + 1, !.read_result = "raised",
            !.raised = TRUE]

TelemetryReadRaised(s) ==
  [s EXCEPT !.pc = Closed, !.reads = @ + 1, !.read_result = "raised",
            !.log = Append(@, LogEvent("error", "Error", FALSE))]

\* ------------------------------------------------------------------------
\* What the peers send, and the clock
\* ------------------------------------------------------------------------

ObjId == <<65, 66, 67, 68>>

DcId == <<69, 70, 71, 72>>

\* Payloads of a device's handshake: "S:D1", "S:D1S:D2", "S:", "DEV1",
\* "S:" followed by a non-ASCII byte, and a lone non-ASCII byte.
Payloads ==
  { <<83, 58, 68, 49>>, <<83, 58, 68, 49, 83, 58, 68, 50>>, <<83, 58>>,
    <<68, 69, 86, 49>>, <<83, 58, 200, 49>>, <<200>> }

\* A device's handshake frame, from ObjId to DcId.
DeviceFrame(payload) == make_handshake(DcId, ObjId, payload)

\* The same frame with its first byte replaced, so that the magic is wrong.
BadMagic(frame) == [frame EXCEPT ![1] = 88]

Prefixes(buf) == { SubSeq(buf, 1, n) : n \in 1..Len(buf) }

\* Buffers shorter than a header that do carry the marker: the first k
\* bytes of a header followed by "S:D1".
ShortWithMarker ==
  { SubSeq(NTC \o ObjId \o DcId, 1, k) \o <<83, 58, 68, 49>> : k \in 0..11 }

HandshakeInputs ==
  { DeviceFrame(p) : p \in Payloads }
    \cup { BadMagic(DeviceFrame(p)) : p \in Payloads }
    \cup Prefixes(DeviceFrame(<<83, 58, 68, 49>>))
    \cup ShortWithMarker

\* A telemetry frame: the four fields at their offsets, between filler.
TelemetryFrame(ts, lat, lon, speed) ==
  <<1, 2, 3, 4, 5, 6, 7, 8>> \o ToBytesLittle(ts, 4)
    \o <<11, 12, 13, 14, 15, 16, 17, 18>>
    \o ToBytesLittle(lat, 4) \o ToBytesLittle(lon, 4) \o ToBytesLittle(speed, 4)

\* Seconds since the epoch: 1970-01-01 00:00:00, 2025-12-31 23:00:00,
\* 2026-02-10 00:00:00 and 2027-01-01 00:00:05 UTC.
Timestamps == {0, 1767222000, 1770681600, 1798761605}

FullFrames ==
  { TelemetryFrame(ts, 64, 42, 5) : ts \in Timestamps }
    \cup { TelemetryFrame(1770681600, 55751244, 37618423, 60) }

TelemetryInputs ==
  FullFrames
    \cup { TelemetryFrame(ts, 64, 42, 5) \o <<9, 9>> : ts \in {0, 1770681600} }
    \cup { SubSeq(TelemetryFrame(1770681600, 64, 42, 5), 1, n) :
             n \in {1, 11, 23, 31} }

\* The clock when a read is processed: 2026-01-01 00:01:40 and
\* 2026-12-31 23:30:00 UTC.
Nows == {1767225700, 1798759800}

\* The local zone of the server, in seconds east of UTC.
UtcOffsets == {0, 10800}

\* ------------------------------------------------------------------------
\* The session alone: one connection, handed to handle
\* ------------------------------------------------------------------------

\* codec when no function of the codec has been called on its own.
NoCall == [op |-> "none"]

Init ==
  /\ sessions = << NewSession >>
  /\ utcoffset \in UtcOffsets
  /\ codec = NoCall

\* handle, from its first read to the await of parse_device_data's read
\* or to its end.
HandshakeRead(c) ==
  /\ AtHandshakeRead(sessions[c])
  /\ \E data \in HandshakeInputs :
       sessions' = [sessions EXCEPT ![c] = HandshakeReceived(@, data)]
  /\ UNCHANGED <<utcoffset, codec>>

HandshakeEmptyRead(c) ==
  /\ AtHandshakeRead(sessions[c])
  /\ sessions' = [sessions EXCEPT ![c] = HandshakeDisconnected(@)]
  /\ UNCHANGED <<utcoffset, codec>>

HandshakeReadError(c) ==
  /\ AtHandshakeRead(sessions[c])
  /\ sessions' = [sessions EXCEPT ![c] = HandshakeReadRaised(@)]
  /\ UNCHANGED <<utcoffset, codec>>

\* One turn of the loop of parse_device_data.
TelemetryRead(c) ==
  /\ AtTelemetryRead(sessions[c])
  /\ sessions[c].reads <= MaxReads
  /\ \E more_data \in TelemetryInputs, now \in Nows :
       sessions' = [sessions EXCEPT
                      ![c] = TelemetryReceived(@, more_data, now, utcoffset)]
  /\ UNCHANGED <<utcoffset, codec>>

TelemetryEmptyRead(c) ==
  /\ AtTelemetryRead(sessions[c])
  /\ sessions' = [sessions EXCEPT ![c] = TelemetryDisconnected(@)]
  /\ UNCHANGED <<utcoffset, codec>>

TelemetryReadError(c) ==
  /\ AtTelemetryRead(sessions[c])
  /\ sessions' = [sessions EXCEPT ![c] = TelemetryReadRaised(@)]
  /\ UNCHANGED <<utcoffset, codec>>

Next ==
  \/ \E c \in DOMAIN sessions : HandshakeRead(c)
  \/ \E c \in DOMAIN sessions : HandshakeEmptyRead(c)
  \/ \E c \in DOMAIN sessions : HandshakeReadError(c)
  \/ \E c \in DOMAIN sessions : TelemetryRead(c)
  \/ \E c \in DOMAIN sessions : TelemetryEmptyRead(c)
  \/ \E c \in DOMAIN sessions : TelemetryReadError(c)

Spec == Init /\ [][Next]_vars

\* The same session with a peer that does disconnect in the end and an
\* event loop that then resumes the coroutine awaiting the read: the read
\* that returns the empty buffer is not put off for ever.
SpecFair ==
  /\ Init
  /\ [][Next]_vars
  /\ WF_vars(\E c \in DOMAIN sessions : HandshakeEmptyRead(c))
  /\ WF_vars(\E c \in DOMAIN sessions : TelemetryEmptyRead(c))

\* ------------------------------------------------------------------------
\* The codec alone: xor_sum and make_handshake called on their own
\* ------------------------------------------------------------------------

\* All byte strings over the bytes of alphabet, of length n at most.
RECURSIVE SeqsUpTo(_, _)
SeqsUpTo(alphabet, n) ==
  IF n = 0 THEN { <<>> }
  ELSE LET shorter == SeqsUpTo(alphabet, n - 1)
       IN  shorter \cup { Append(b, x) : b \in shorter, x \in alphabet }

\* Ids handed to make_handshake: four of 4 bytes, and ones of 0, 3 and 5.
GoodIds == { ObjId, DcId, <<0, 0, 0, 0>>, <<255, 1, 2, 128>> }

BadIds == { <<>>, <<65, 66, 67>>, <<65, 66, 67, 68, 69>> }

\* Payloads handed to make_handshake: the short ones, the acknowledgement,
\* two that need the second byte of the size, and one of 65536 bytes, the
\* shortest that to_bytes(2, "little") refuses.
EncoderPayloads ==
  SeqsUpTo({0, 42, 255}, MaxPayloadLen)
    \cup { Ack, [i \in 1..256 |-> 7], [i \in 1..600 |-> i % 256],
           [i \in 1..Pow256(2) |-> 0] }

XorBuffers == SeqsUpTo({0, 1, 42, 128, 255}, MaxBufLen)

\* One call of make_handshake as its caller sees it: what it returned,
\* whether an exception left it, and whether it logged a failure.  The
\* `except Exception` around its whole body lets no exception out.
MakeHandshakeCall(receiverId, senderId, data) ==
  [op |-> "make_handshake", receiverId |-> receiverId, senderId |-> senderId,
   data |-> data, result |-> make_handshake(receiverId, senderId, data),
   raised |-> FALSE,
   logged |-> make_handshake(receiverId, senderId, data) = None]

XorSumCall(buffer) ==
  [op |-> "xor_sum", buffer |-> buffer, result |-> xor_sum(buffer)]

InitCodec ==
  /\ sessions = <<>>
  /\ utcoffset \in UtcOffsets
  /\ codec = NoCall

\* Each behaviour of the codec alone is one call.
CallMakeHandshake ==
  /\ codec = NoCall
  /\ \E receiverId \in GoodIds \cup BadIds, senderId \in GoodIds \cup BadIds,
        data \in EncoderPayloads :
       codec' = MakeHandshakeCall(receiverId, senderId, data)
  /\ UNCHANGED <<sessions, utcoffset>>

CallXorSum ==
  /\ codec = NoCall
  /\ \E buffer \in XorBuffers : codec' = XorSumCall(buffer)
  /\ UNCHANGED <<sessions, utcoffset>>

NextCodec ==
  \/ CallMakeHandshake
  \/ CallXorSum

SpecCodec == InitCodec /\ [][NextCodec]_vars

\* ------------------------------------------------------------------------
\* Several sessions: the listener of main hands each accepted connection
\* to a handle of its own
\* ------------------------------------------------------------------------

\* A store in which device_id is one module-level name, so that the
\* session that binds it binds it for every session.
Replace_SharedDeviceId(all, c, s) ==
  [d \in DOMAIN all |->
     IF d = c THEN s ELSE [all[d] EXCEPT !.device_id = s.device_id]]

\* The sessions after session c moved to s: data, idobj, iddc, device_id
\* and the rest are locals of c's own call of handle.
Replace(all, c, s) == [all EXCEPT ![c] = s]

\* What the peers of several sessions send: handshakes with the ids "D1"
\* and "", one without "S:", a full telemetry frame and a short one.
MultiHandshakeInputs ==
  { DeviceFrame(<<83, 58, 68, 49>>), DeviceFrame(<<83, 58>>),
    DeviceFrame(<<68, 69, 86, 49>>) }

MultiTelemetryInputs ==
  { TelemetryFrame(1770681600, 64, 42, 5),
    SubSeq(TelemetryFrame(1770681600, 64, 42, 5), 1, 11) }

MultiNows == {1767225700}

\* The server is started and serves; no connection has been accepted.
InitMulti ==
  /\ sessions = <<>>
  /\ utcoffset \in UtcOffsets
  /\ codec = NoCall

\* start_server calls handle for a new connection.
AcceptConnection ==
  /\ Len(sessions) < MaxConns
  /\ sessions' = Append(sessions, NewSession)
  /\ UNCHANGED <<utcoffset, codec>>

HandshakeReadOf(c) ==
  /\ AtHandshakeRead(sessions[c])
  /\ \E data \in MultiHandshakeInputs :
       sessions' = Replace(sessions, c, HandshakeReceived(sessions[c], data))
  /\ UNCHANGED <<utcoffset, codec>>

HandshakeEmptyReadOf(c) ==
  /\ AtHandshakeRead(sessions[c])
  /\ sessions' = Replace(sessions, c, HandshakeDisconnected(sessions[c]))
  /\ UNCHANGED <<utcoffset, codec>>

TelemetryReadOf(c) ==
  /\ AtTelemetryRead(sessions[c])
  /\ sessions[c].reads <= MaxMultiReads
  /\ \E more_data \in MultiTelemetryInputs, now \in MultiNows :
       sessions' = Replace(sessions, c,
                     TelemetryReceived(sessions[c], more_data, now, utcoffset))
  /\ UNCHANGED <<utcoffset, codec>>

TelemetryEmptyReadOf(c) ==
  /\ AtTelemetryRead(sessions[c])
  /\ sessions' = Replace(sessions, c, TelemetryDisconnected(sessions[c]))
  /\ UNCHANGED <<utcoffset, codec>>

NextMulti ==
  \/ AcceptConnection
  \/ \E c \in DOMAIN sessions : HandshakeReadOf(c)
  \/ \E c \in DOMAIN sessions : HandshakeEmptyReadOf(c)
  \/ \E c \in DOMAIN sessions : TelemetryReadOf(c)
  \/ \E c \in DOMAIN sessions : TelemetryEmptyReadOf(c)

SpecMulti == InitMulti /\ [][NextMulti]_vars

\* ------------------------------------------------------------------------
\* Properties of one session
\* ------------------------------------------------------------------------

Conns == DOMAIN sessions

Rank(pc) == CASE pc = AwaitingHandshake -> 0 [] pc = Streaming -> 1 [] pc = Closed -> 2

\* C1: a session's state only moves forward along Awaiting-Handshake,
\* Streaming, Closed; Closed is never left, and a step taken while a
\* session is Closed performs no read, no write and emits no record for it.
C1_StateOnlyAdvances ==
  [][\A c \in Conns :
       /\ Rank(sessions'[c].pc) >= Rank(sessions[c].pc)
       /\ sessions[c].pc = Closed =>
            /\ sessions'[c].pc = Closed
            /\ sessions'[c].reads = sessions[c].reads
            /\ sessions'[c].written = sessions[c].written
            /\ sessions'[c].sink = sessions[c].sink]_vars

\* A session that went through all three states: it replied, emitted a
\* record and is Closed.
C1_Witness ==
  \E c \in Conns :
    /\ sessions[c].pc = Closed
    /\ Len(sessions[c].written) = 1
    /\ Len(sessions[c].sink) >= 1

\* C2: every session that has ended has closed its connection itself.
C2_ReleasedOnEveryExit ==
  \A c \in Conns : sessions[c].pc = Closed => sessions[c].writer_closed

\* A handshake buffer the decoder of the specification accepts: a whole
\* header with the magic, all ASCII, carrying the marker.
WellFormedHandshake(data) ==
  /\ Len(data) >= 16
  /\ SubSeq(data, 1, 4) = NTC
  /\ IsAscii(data)
  /\ Contains(data, SMarker)

\* The session got to parse_device_data: it awaits a telemetry read or has
\* had one.
EnteredStreaming(s) == s.pc = Streaming \/ (s.pc = Closed /\ s.reads >= 2)

\* C3: a well-formed handshake is answered by one reply; every reply a
\* session writes is a 19-byte frame: the magic, the inbound bytes 8..12,
\* the inbound bytes 4..8, length 3, the checksum of the payload, the
\* checksum of the 15 bytes before it, and the acknowledgement; and the
\* session that wrote it has entered Streaming.
C3_ReplySwapsIds ==
  \A c \in Conns :
    LET s == sessions[c] IN
      /\ (s.read_result = "data" /\ WellFormedHandshake(s.data)) =>
           Len(s.written) = 1
      /\ Len(s.written) <= 1
      /\ \A i \in 1..Len(s.written) :
           LET r == s.written[i] IN
             /\ Len(r) = 19
             /\ SubSeq(r, 1, 4) = <<64, 78, 84, 67>>
             /\ SubSeq(r, 5, 8) = SubSeq(s.data, 9, 12)
             /\ SubSeq(r, 9, 12) = SubSeq(s.data, 5, 8)
             /\ SubSeq(r, 13, 14) = <<3, 0>>
             /\ r[15] = xor_sum(SubSeq(r, 17, 19))
             /\ r[16] = xor_sum(SubSeq(r, 1, 15))
             /\ SubSeq(r, 17, 19) = <<42, 60, 83>>
             /\ EnteredStreaming(s)

\* A session that read a well-formed handshake with two different ids and
\* has written its reply.
C3_Witness ==
  \E c \in Conns :
    /\ WellFormedHandshake(sessions[c].data)
    /\ SubSeq(sessions[c].data, 5, 8) # SubSeq(sessions[c].data, 9, 12)
    /\ Len(sessions[c].written) = 1
    /\ sessions[c].pc = Streaming

\* The session has read a non-empty handshake buffer.
HandshakeBuffer(s) == s.read_result = "data" /\ s.data # None /\ s.data # <<>>

\* The session ended at its handshake: Closed, nothing written, never in
\* Streaming, no record.
RejectedAtHandshake(s) ==
  /\ s.pc = Closed
  /\ s.reads = 1
  /\ s.written = <<>>
  /\ s.more_data = None
  /\ s.sink = <<>>

\* C4: a non-empty handshake buffer shorter than 16 bytes is never
\* answered: no reply, no Streaming, and the session is Closed.
C4_ShortHandshakeRejected ==
  \A c \in Conns :
    (HandshakeBuffer(sessions[c]) /\ Len(sessions[c].data) < 16) =>
      RejectedAtHandshake(sessions[c])

\* C5: a handshake buffer whose first 4 bytes are not "@NTC" is never
\* answered: no reply, no Streaming, and the session is Closed.
C5_BadMagicRejected ==
  \A c \in Conns :
    (HandshakeBuffer(sessions[c]) /\ Slice(sessions[c].data, 0, 4) # NTC) =>
      RejectedAtHandshake(sessions[c])

\* C6: a non-empty handshake buffer without the marker "S:", or with a
\* non-ASCII byte anywhere, ends the session: no reply is written, it never
\* enters Streaming, and no record is emitted.
C6_MissingIdOrNonAsciiRejected ==
  \A c \in Conns :
    (/\ HandshakeBuffer(sessions[c])
     /\ \/ ~Contains(sessions[c].data, SMarker)
        \/ \E i \in 1..Len(sessions[c].data) : sessions[c].data[i] >= 128) =>
      RejectedAtHandshake(sessions[c])

\* A session ended by a buffer that carries the marker and a non-ASCII
\* byte, with nothing written.
C6_Witness ==
  \E c \in Conns :
    /\ HandshakeBuffer(sessions[c])
    /\ Contains(sessions[c].data, SMarker)
    /\ \E i \in 1..Len(sessions[c].data) : sessions[c].data[i] >= 128
    /\ RejectedAtHandshake(sessions[c])
    /\ sessions[c].raised

\* The characters after the first occurrence of sep, to the end of str.
RECURSIVE AfterFirst(_, _, _)
AfterFirst(str, sep, i) ==
  IF MatchAt(str, sep, i) THEN SubSeq(str, i + Len(sep), Len(str))
  ELSE AfterFirst(str, sep, i + 1)

\* C7: the device identifier of an accepted handshake is every character
\* after the first "S:" up to the end of the buffer.
C7_DeviceIdToEndOfBuffer ==
  \A c \in Conns :
    (HandshakeBuffer(sessions[c]) /\ sessions[c].device_id # None) =>
      sessions[c].device_id = AfterFirst(sessions[c].data, SMarker, 1)

\* How many events of a log carry the message msg.
CountMsg(log, msg) == Cardinality({ i \in 1..Len(log) : log[i].msg = msg })

\* The step is a read of session c that completed with the result given.
ReadStep(c, result) ==
  /\ sessions'[c].reads = sessions[c].reads + 1
  /\ sessions'[c].read_result = result

\* C8: an empty read closes the session in either state.  In
\* Awaiting-Handshake nothing is written and Streaming is not entered; in
\* Streaming no record is emitted for the read and no malformed-frame or
\* other error event is logged, only the disconnect.
C8_EmptyReadCloses ==
  [][\A c \in Conns :
       LET s == sessions[c]
           t == sessions'[c]
       IN  /\ (s.pc = AwaitingHandshake /\ ReadStep(c, "eof")) =>
                /\ RejectedAtHandshake(t)
                /\ ~t.raised
                /\ CountMsg(t.log, "disconnected") = 1
           /\ (s.pc = Streaming /\ ReadStep(c, "eof")) =>
                /\ t.pc = Closed
                /\ t.sink = s.sink
                /\ t.written = s.written
                /\ ~t.raised
                /\ CountMsg(t.log, "sent broken data") = 0
                /\ \A i \in 1..Len(t.log) : t.log[i].level # "error"
                /\ CountMsg(t.log, "disconnected after handshake") = 1]_vars

\* A session closed by an empty read in Streaming, after it emitted a
\* record.
C8_Witness ==
  \E c \in Conns :
    /\ sessions[c].pc = Closed
    /\ sessions[c].read_result = "eof"
    /\ sessions[c].more_data = <<>>
    /\ Len(sessions[c].sink) >= 1

\* C9: in Streaming a non-empty read of fewer than 32 bytes ends the
\* session: one malformed-frame event is logged, no record is emitted for
\* the read, the session is Closed and reads no more.
C9_ShortFrameIsFatal ==
  [][\A c \in Conns :
       LET s == sessions[c]
           t == sessions'[c]
       IN  /\ (/\ s.pc = Streaming
               /\ ReadStep(c, "data")
               /\ Len(t.more_data) \in 1..31) =>
                /\ t.pc = Closed
                /\ t.sink = s.sink
                /\ CountMsg(t.log, "sent broken data") = 1
                /\ CountMsg(s.log, "sent broken data") = 0
           /\ (/\ s.pc = Closed
               /\ s.read_result = "data"
               /\ Len(s.more_data) \in 1..31) => t.reads = s.reads]_vars

\* A session closed by a 31-byte frame after it emitted a record.
C9_Witness ==
  \E c \in Conns :
    /\ sessions[c].pc = Closed
    /\ sessions[c].read_result = "data"
    /\ sessions[c].more_data # None
    /\ Len(sessions[c].more_data) = 31
    /\ Len(sessions[c].sink) = 1
    /\ CountMsg(sessions[c].log, "sent broken data") = 1

\* The local calendar year of a count of seconds since the epoch.
LocalYear(seconds) == fromtimestamp(seconds, utcoffset).year

\* The little-endian unsigned value of bytes from..to-1 of a buffer.
Field(buf, from, to) == FromBytesLittle(SubSeq(buf, from + 1, to))

\* C10: in Streaming a read of 32 bytes or more is pushed to the sink if and
\* only if the year of its timestamp is the year of the clock when it is
\* processed; otherwise nothing is emitted and nothing is logged; either
\* way the session stays in Streaming.
C10_YearFilter ==
  [][\A c \in Conns :
       LET s == sessions[c]
           t == sessions'[c]
       IN  (/\ s.pc = Streaming
            /\ ReadStep(c, "data")
            /\ Len(t.more_data) >= 32) =>
             /\ t.pc = Streaming
             /\ IF LocalYear(Field(t.more_data, 8, 12)) = LocalYear(t.now)
                  THEN /\ Len(t.sink) = Len(s.sink) + 1
                       /\ SubSeq(t.sink, 1, Len(s.sink)) = s.sink
                       /\ t.sink[Len(t.sink)].timestamp.year = LocalYear(t.now)
                  ELSE /\ t.sink = s.sink
                       /\ t.log = s.log]_vars

\* A session still in Streaming after one frame was filtered out and a
\* later one was emitted.
C10_Witness ==
  \E c \in Conns :
    /\ sessions[c].pc = Streaming
    /\ sessions[c].reads = 3
    /\ Len(sessions[c].sink) = 1
    /\ LocalYear(Field(sessions[c].more_data, 8, 12)) = LocalYear(sessions[c].now)

\* ------------------------------------------------------------------------
\* Properties of the codec
\* ------------------------------------------------------------------------

\* XOR of all bytes of a buffer, bit by bit: bit k of the result is the
\* parity of the number of bytes that have bit k set.
ParityBit(buffer, k) ==
  Cardinality({ i \in 1..Len(buffer) : (buffer[i] \div (2 ^ k)) % 2 = 1 }) % 2

XorOfAll(buffer) ==
  ParityBit(buffer, 0) + 2 * ParityBit(buffer, 1) + 4 * ParityBit(buffer, 2)
    + 8 * ParityBit(buffer, 3) + 16 * ParityBit(buffer, 4)
    + 32 * ParityBit(buffer, 5) + 64 * ParityBit(buffer, 6)
    + 128 * ParityBit(buffer, 7)

EncoderCalled == codec.op = "make_handshake"

ValidEncoderInput ==
  /\ Len(codec.senderId) = 4
  /\ Len(codec.receiverId) = 4
  /\ Len(codec.data) <= 65535

\* C11: make_handshake never returns an absent frame: when building the
\* frame failed, the caller gets an exception, not a logged failure and a
\* None result.
C11_EncoderFailureSurfaces ==
  EncoderCalled =>
    /\ codec.result = None => codec.raised
    /\ codec.logged => codec.raised

\* C12: when the sender id or the receiver id is not exactly 4 bytes, or
\* the payload is longer than 65535 bytes, make_handshake raises and
\* produces no frame.
C12_InvalidArgumentRejected ==
  (EncoderCalled /\ ~ValidEncoderInput) =>
    (codec.raised /\ codec.result = None)

\* C13: for 4-byte ids and a payload of at most 65535 bytes the frame is
\* 16 + len(payload) bytes: "@NTC", the sender id at 4..8, the receiver id
\* at 8..12, the little-endian payload length at 12..14, the XOR of the
\* payload at 14, the XOR of bytes 0..14 at 15, then the payload unchanged.
C13_FrameLayout ==
  (EncoderCalled /\ ValidEncoderInput) =>
    LET frame == codec.result
    IN  /\ frame # None
        /\ Len(frame) = 16 + Len(codec.data)
        /\ \A i \in 1..Len(frame) : frame[i] \in 0..255
        /\ SubSeq(frame, 1, 4) = <<64, 78, 84, 67>>
        /\ SubSeq(frame, 5, 8) = codec.senderId
        /\ SubSeq(frame, 9, 12) = codec.receiverId
        /\ frame[13] + 256 * frame[14] = Len(codec.data)
        /\ frame[15] = XorOfAll(codec.data)
        /\ frame[16] = XorOfAll(SubSeq(frame, 1, 15))
        /\ SubSeq(frame, 17, Len(frame)) = codec.data

\* A frame was built for 4-byte ids and a payload whose length needs both
\* bytes of the size field, where each of them is non-zero.
C13_Witness ==
  /\ EncoderCalled
  /\ ValidEncoderInput
  /\ Len(codec.data) > 256
  /\ Len(codec.data) % 256 # 0
  /\ codec.result # None
  /\ codec.senderId # codec.receiverId

\* C14: xor_sum is the XOR of all bytes of its input: 0 for the empty
\* input, and for a buffer of at least one byte the checksum of the buffer
\* with its own checksum appended is 0.
C14_ChecksumIsRunningXor ==
  codec.op = "xor_sum" =>
    /\ codec.result = XorOfAll(codec.buffer)
    /\ codec.buffer = <<>> => codec.result = 0
    /\ Len(codec.buffer) >= 1 =>
         xor_sum(Append(codec.buffer, codec.result)) = 0

\* xor_sum ran over a buffer of several bytes, two of which share a set
\* bit, and its result is not zero.
C14_Witness ==
  /\ codec.op = "xor_sum"
  /\ Len(codec.buffer) >= 2
  /\ codec.result # 0
  /\ \E i, j \in 1..Len(codec.buffer) :
       i # j /\ codec.buffer[i] = 255 /\ codec.buffer[j] = 1

\* ------------------------------------------------------------------------
\* Properties of several sessions
\* ------------------------------------------------------------------------

\* The session ended on a handshake that could not be decoded or on a
\* telemetry frame that could not be unpacked.
DecodeFailed(s) ==
  /\ s.pc = Closed
  /\ s.read_result = "data"

\* C15: with several sessions interleaved, every step of one session
\* leaves every other session (its state, its device id, its records)
\* unchanged, no session ever disappears, and where a session has ended on
\* a decode error the listener still accepts a new connection.
C15_SessionsIsolated ==
  [][ /\ \A d \in DOMAIN sessions : d \in DOMAIN sessions'
      /\ \A c \in DOMAIN sessions :
           sessions'[c] # sessions[c] =>
             \A d \in DOMAIN sessions \ {c} : sessions'[d] = sessions[d]
      /\ ( /\ \E c \in DOMAIN sessions : DecodeFailed(sessions[c])
            /\ Len(sessions) < MaxConns ) => ENABLED AcceptConnection ]_vars

\* One session ended on a decode error while another, with a device id
\* of its own, streams on and has emitted a record.
C15_Witness ==
  \E c, d \in DOMAIN sessions :
    /\ c # d
    /\ DecodeFailed(sessions[c])
    /\ sessions[d].pc = Streaming
    /\ sessions[d].sink # <<>>
    /\ sessions[c].device_id # sessions[d].device_id
    /\ sessions[c].device_id # None

\* ------------------------------------------------------------------------
\* Properties of one session: logging, the reply, the records
\* ------------------------------------------------------------------------

\* C16: a session that has ended has itself logged, after the event for
\* the new connection, at least one event that names the peer.
C16_FailureIsLogged ==
  \A c \in Conns :
    sessions[c].pc = Closed =>
      \E i \in 2..Len(sessions[c].log) : sessions[c].log[i].client

\* C17: a session writes at most once, in the step of its one handshake
\* read; telemetry reads and records come only after that write; every
\* record carries the device id taken from the handshake buffer, and the
\* device id, once bound, never changes.
C17_OneWriteThenTelemetry ==
  [][\A c \in Conns :
       LET s == sessions[c]
           t == sessions'[c]
       IN  /\ Len(t.written) <= 1
           /\ t.written # s.written =>
                /\ s.written = <<>>
                /\ s.reads = 0
                /\ t.reads = 1
                /\ t.read_result = "data"
           /\ (s.reads >= 1 /\ t.reads > s.reads) =>
                /\ Len(s.written) = 1
                /\ t.written = s.written
                /\ t.data = s.data
           /\ t.sink # s.sink =>
                /\ Len(s.written) = 1
                /\ s.reads >= 1
           /\ \A i \in 1..Len(t.sink) : t.sink[i].device_id = t.device_id
           /\ t.device_id # None => t.device_id = DeviceId(t.data)
           /\ s.device_id # None => t.device_id = s.device_id]_vars

\* A session that wrote its reply, then read telemetry twice and emitted
\* two records under a non-empty device id.
C17_Witness ==
  \E c \in Conns :
    /\ Len(sessions[c].written) = 1
    /\ sessions[c].reads = 3
    /\ Len(sessions[c].sink) = 2
    /\ sessions[c].device_id # <<>>
    /\ sessions[c].sink[2].device_id = sessions[c].device_id

\* C18: when the handshake buffer is non-empty, all ASCII and contains
\* "S:", what the session hands to writer.write is a complete frame of 19
\* bytes, not the None of a failed make_handshake.
C18_WriteGetsCompleteFrame ==
  \A c \in Conns :
    LET s == sessions[c]
    IN  (HandshakeBuffer(s) /\ IsAscii(s.data) /\ Contains(s.data, SMarker)) =>
          /\ Len(s.handed) = 1
          /\ s.handed[1] # None
          /\ Len(s.handed[1]) = 16 + Len(Ack)

\* C19: when the peer disconnects in the end, the session reaches Closed;
\* and a read of 32 bytes or more never takes a session out of Streaming,
\* whether or not a record is emitted for it.
C19_ClosesOnlyOnDisconnectOrError ==
  /\ <>(sessions[1].pc = Closed)
  /\ [][\A c \in Conns :
          LET s == sessions[c]
              t == sessions'[c]
          IN  /\ (s.pc = Streaming /\ t.pc # Streaming) =>
                   \/ ReadStep(c, "eof")
                   \/ ReadStep(c, "raised")
                   \/ ReadStep(c, "data") /\ Len(t.more_data) < 32
              /\ (s.pc = Streaming /\ ReadStep(c, "data")
                    /\ Len(t.more_data) >= 32) => t.pc = Streaming]_vars

\* A session closed by the peer's disconnect after it stayed in Streaming
\* over two full frames, one of which was not of the current year.
C19_Witness ==
  \E c \in Conns :
    /\ sessions[c].pc = Closed
    /\ sessions[c].read_result = "eof"
    /\ sessions[c].reads = 4
    /\ Len(sessions[c].sink) = 1

\* The telemetry reads of a session that returned a non-empty buffer: an
\* empty or a failed read can only be the last one.
TelemetryDataReads(s) ==
  IF s.reads <= 1 THEN 0
  ELSE IF s.read_result = "data" THEN s.reads - 1
  ELSE s.reads - 2

\* C20: a non-empty read in Streaming emits at most one record, built from
\* bytes 8..12, 20..24, 24..28 and 28..32 of that read alone: the bytes
\* after offset 32 and the read before it have no part in it; a session
\* never has more records than non-empty telemetry reads.
C20_OneRecordPerRead ==
  [][\A c \in Conns :
       LET s  == sessions[c]
           t  == sessions'[c]
           md == t.more_data
       IN  /\ Len(t.sink) <= TelemetryDataReads(t)
           /\ (s.pc = Streaming /\ ReadStep(c, "data")) =>
                /\ Len(t.sink) <= Len(s.sink) + 1
                /\ SubSeq(t.sink, 1, Len(s.sink)) = s.sink
                /\ Len(t.sink) = Len(s.sink) + 1 =>
                     /\ Len(md) >= 32
                     /\ t.sink[Len(t.sink)] =
                          [device_id |-> s.device_id,
                           timestamp |-> fromtimestamp(Field(md, 8, 12), utcoffset),
                           latitude |-> Degrees(Field(md, 20, 24)),
                           longitude |-> Degrees(Field(md, 24, 28)),
                           speed |-> Field(md, 28, 32)]
           /\ ~(s.pc = Streaming /\ ReadStep(c, "data")) => t.sink = s.sink]_vars

\* A session emitted a record for a read of more than 32 bytes, after an
\* earlier read for which it emitted none.
C20_Witness ==
  \E c \in Conns :
    /\ sessions[c].pc = Streaming
    /\ sessions[c].read_result = "data"
    /\ Len(sessions[c].more_data) > 32
    /\ sessions[c].reads = 3
    /\ Len(sessions[c].sink) = 1
    /\ LocalYear(Field(sessions[c].more_data, 8, 12)) = LocalYear(sessions[c].now)

====
